---- MODULE Spec2Model ----
(***************************************************************************)
(* Relay debug toolkit (src/src/lib/relay-debug.ts).                       *)
(*                                                                         *)
(* The toolkit is a set of async functions over the browser WebSocket.     *)
(* One step of the model is one task of the JavaScript event loop: a call  *)
(* of a public function up to its first suspension, a WebSocket event, or  *)
(* a timer callback, each together with the promise continuations          *)
(* (microtasks) it releases.  Sequential code is written as operators      *)
(* from a world record (all variables) to a world record, so that a        *)
(* handler and the continuation it resumes compose as in the source.       *)
(*                                                                         *)
(* WebSocket follows the WHATWG interface: close() moves CONNECTING/OPEN   *)
(* to CLOSING, a failed connection fires error and then close in one task  *)
(* with readyState CLOSED, send() transmits only while OPEN and is         *)
(* silently dropped in CLOSING/CLOSED, and a message event is delivered    *)
(* only while OPEN.                                                        *)
(***************************************************************************)
EXTENDS Integers, Sequences, FiniteSets, TLC

\* Bounds of the model.
MaxConn == 2      \* largest connectionCount given to stressTestRelay
MaxMsgs == 2      \* frames delivered during one call, over all its connections
MaxNow == 2       \* clock readings after 0
MaxCancels == 2   \* invocations of monitorRelay's cancel function
MaxPings == 2     \* pingRelay calls made one after another
MaxFanNow == 1    \* clock readings after 0 in a run of a fan-out

VARIABLES
    now,        \* Date.now() / performance.now()
    op,         \* the public function that was called ("idle" before)
    conn,       \* RelayConnection objects, by attempt
    ws,         \* their WebSocket
    timeoutId,  \* connectToRelay's connect timer is armed
    promise,    \* the promise connectToRelay returned
    hc,         \* healthCheckRelay's frame
    pub,        \* publishEventToRelay's frames, by endpoint
    mon,        \* monitorRelay's closure and its callbacks' calls
    st,         \* stressTestRelay's frame
    tc,         \* testRelayCompliance's frames, by endpoint
    fan         \* batchPublishToRelays' / compareRelays' frame

vars == <<now, op, conn, ws, timeoutId, promise, hc, pub, mon, st, tc, fan>>

Conns == 1..MaxConn

\* The variables as one record, and the step that installs a record.
W == [now |-> now, op |-> op, conn |-> conn, ws |-> ws, timeoutId |-> timeoutId,
      promise |-> promise, hc |-> hc, pub |-> pub, mon |-> mon, st |-> st,
      tc |-> tc, fan |-> fan]

Apply(w) ==
    /\ now' = w.now
    /\ op' = w.op
    /\ conn' = w.conn
    /\ ws' = w.ws
    /\ timeoutId' = w.timeoutId
    /\ promise' = w.promise
    /\ hc' = w.hc
    /\ pub' = w.pub
    /\ mon' = w.mon
    /\ st' = w.st
    /\ tc' = w.tc
    /\ fan' = w.fan

-----------------------------------------------------------------------------
(* Values *)

\* JavaScript ToBoolean on the JSON values that occur in frames.
Truthy(v) == v \notin {"false", "0", "null", "undefined", ""}

\* `error instanceof Error ? error.message : 'Unknown error'`
ErrorMessage(reason) == IF reason = "undefined" THEN "Unknown error" ELSE reason

\* Endpoint addresses: `new WebSocket(url)` throws on BadUrl.
GoodUrl == "wss://a"
BadUrl == "relay.example"
Urls == {GoodUrl, BadUrl}
UrlOk(url) == url # BadUrl

\* Incoming frame texts.  kind "garbage" is not JSON; kind "null" is the JSON
\* text null; "NOTICE" is an array that is no OK frame; "OK" is
\* ["OK", id, flag, text] with flag and text given as their JSON text.
NoData == [kind |-> "undefined", id |-> "", flag |-> "undefined", text |-> "undefined"]
Garbage == [kind |-> "garbage", id |-> "", flag |-> "undefined", text |-> "undefined"]
NullFrame == [kind |-> "null", id |-> "", flag |-> "undefined", text |-> "undefined"]
Notice == [kind |-> "NOTICE", id |-> "", flag |-> "undefined", text |-> "undefined"]
\* The Event object that ws.onerror receives and stores as the data of its
\* log entry.
ErrorEvent == [kind |-> "Event", id |-> "", flag |-> "undefined", text |-> "error"]
Ids == {"abc", "xyz"}
OkFrame(id, flag, text) == [kind |-> "OK", id |-> id, flag |-> flag, text |-> text]
OkFrames ==
    {OkFrame("abc", "true", "stored"), OkFrame("abc", "false", "undefined"),
     OkFrame("abc", "1", "undefined"), OkFrame("xyz", "true", "undefined"),
     OkFrame("xyz", "0", "stored")}
Frames == {Garbage, NullFrame, Notice} \cup OkFrames

\* What a relay sends during a call of op o: frame contents matter to
\* publishEventToRelay only (called on its own or by batchPublishToRelays),
\* the other functions just count and log them.
FramesFor(o) == IF o \in {"publish", "batch"} THEN Frames ELSE {Notice}

-----------------------------------------------------------------------------
(* RelayConnection and WebSocket *)

NoConnection ==
    [status |-> "none", messageCount |-> 0, errorCount |-> 0,
     lastActivity |-> 0, logs |-> <<>>]

NoSocket ==
    [readyState |-> "none", established |-> FALSE, closeCalled |-> FALSE,
     sent |-> <<>>, onclose |-> "none", onerror |-> "none", listener |-> FALSE]

\* calls counts the connectToRelay calls made for the attempt.
NoPromise == [state |-> "none", reason |-> "undefined", calls |-> 0]

\* connection.logs.push({timestamp: Date.now(), type, message, data})
pushLog(w, i, type, message, data) ==
    [w EXCEPT !.conn[i].logs =
        Append(@, [timestamp |-> w.now, type |-> type, message |-> message,
                   data |-> data])]

\* ws.close(): starts the closing handshake of an open or connecting socket,
\* does nothing on a closing or closed one.  closeCalled records the call.
close(w, i) ==
    [w EXCEPT !.ws[i].closeCalled = TRUE,
              !.ws[i].readyState =
                  IF @ \in {"CONNECTING", "OPEN"} THEN "CLOSING" ELSE @]

\* ws.send(frame): the frame goes out only while OPEN.  Every call is
\* recorded with the states it was made in, and with whether a message
\* listener was registered on the socket at that moment.
send(w, i, frame) ==
    [w EXCEPT !.ws[i].sent =
        Append(@, [frame |-> frame, readyState |-> w.ws[i].readyState,
                   status |-> w.conn[i].status,
                   listener |-> w.ws[i].listener])]

-----------------------------------------------------------------------------
(* healthCheckRelay *)

NoHealth ==
    [pc |-> "idle", startTime |-> 0, timer |-> FALSE,
     result |-> [isHealthy |-> FALSE, latency |-> 0, supportsRead |-> FALSE,
                 supportsWrite |-> FALSE, responseTime |-> 0, timestamp |-> 0,
                 errorMessage |-> "undefined"]]

\* Mutant: the catch returns without recording the error text.
healthCheckRelay_catch_noMessage(w, reason) == [w EXCEPT !.hc.pc = "returned"]

\* catch (error): result.errorMessage = ...; return result
healthCheckRelay_catch(w, reason) ==
    [w EXCEPT !.hc.result.errorMessage = ErrorMessage(reason),
              !.hc.pc = "returned"]

\* After `await connectToRelay(url, 5000)`: lines 124-141, up to the
\* 1-second wait.
healthCheckRelay_connected(w) ==
    IF w.conn[1].status = "connected" /\ w.ws[1].readyState # "none"
    THEN LET w1 == [w EXCEPT !.hc.result.isHealthy = TRUE,
                             !.hc.result.responseTime = w.now - w.hc.startTime,
                             !.hc.result.latency = w.now - w.hc.startTime]
             w2 == send(w1, 1, "REQ")
         IN [w2 EXCEPT !.hc.result.supportsRead = TRUE,
                       !.hc.timer = TRUE,
                       !.hc.pc = "waiting"]
    ELSE [w EXCEPT !.hc.pc = "returned"]

\* Mutant: returns after the read test without closing the socket.
healthCheckRelay_timer_noClose(w) ==
    LET w1 == send([w EXCEPT !.hc.timer = FALSE], 1, "CLOSE")
    IN [w1 EXCEPT !.hc.result.supportsWrite = TRUE, !.hc.pc = "returned"]

\* The 1-second timer of the read test and the rest of the function:
\* send CLOSE, resolve, supportsWrite, close the socket, return.
healthCheckRelay_timer(w) ==
    LET w1 == send([w EXCEPT !.hc.timer = FALSE], 1, "CLOSE")
        w2 == [w1 EXCEPT !.hc.result.supportsWrite = TRUE]
        w3 == close(w2, 1)
    IN [w3 EXCEPT !.hc.pc = "returned"]

-----------------------------------------------------------------------------
(* batchPublishToRelays / compareRelays: the frame of the fan-out *)

\* urls is the argument, order the endpoints in the order in which their
\* calls returned, results the array the fan-out resolved with.
NoFanOut ==
    [n |-> 0, urls |-> <<>>, order |-> <<>>, returned |-> FALSE, results |-> <<>>]

\* Mutant: the results are collected in the order of completion.
batchPublishToRelays_join_byCompletion(w) ==
    IF ~w.fan.returned /\ \A i \in 1..w.fan.n : w.pub[i].pc = "returned"
    THEN [w EXCEPT !.fan.returned = TRUE,
                   !.fan.results = [k \in 1..w.fan.n |-> w.pub[w.fan.order[k]].result]]
    ELSE w

\* Mutant: the batch returns as soon as one publish has failed.
batchPublishToRelays_join_failFast(w) ==
    IF /\ ~w.fan.returned
       /\ \/ \A i \in 1..w.fan.n : w.pub[i].pc = "returned"
          \/ \E i \in 1..w.fan.n :
                w.pub[i].pc = "returned" /\ ~Truthy(w.pub[i].result.success)
    THEN [w EXCEPT !.fan.returned = TRUE,
                   !.fan.results = [k \in 1..w.fan.n |-> w.pub[k].result]]
    ELSE w

\* `return Promise.all(promises)`: resolves, once every publish has
\* returned, with their results in the order of the promises.
batchPublishToRelays_join(w) ==
    IF ~w.fan.returned /\ \A i \in 1..w.fan.n : w.pub[i].pc = "returned"
    THEN [w EXCEPT !.fan.returned = TRUE,
                   !.fan.results = [k \in 1..w.fan.n |-> w.pub[k].result]]
    ELSE w

-----------------------------------------------------------------------------
(* publishEventToRelay *)

NoPublish ==
    [pc |-> "idle", startTime |-> 0, timer |-> FALSE, promise |-> "none",
     observed |-> <<>>,
     result |-> [relay |-> "", success |-> "false", eventId |-> "",
                 timestamp |-> 0, latency |-> 0, message |-> "undefined"]]

\* `return result`, and the caller's Promise.all when the call is one of a
\* batch.
publishEventToRelay_return(w, i) ==
    LET w1 == [w EXCEPT !.pub[i].pc = "returned"]
    IN IF w.op = "batch"
       THEN batchPublishToRelays_join([w1 EXCEPT !.fan.order = Append(@, i)])
       ELSE w1

\* catch (error): result.message, result.latency; return result
publishEventToRelay_catch(w, i, reason) ==
    publishEventToRelay_return(
        [w EXCEPT !.pub[i].result.message = ErrorMessage(reason),
                  !.pub[i].result.latency = w.now - w.pub[i].startTime], i)

\* resolve() of the inner promise and the code after its await:
\* connection.websocket.close(); return result
publishEventToRelay_resolve(w, i) ==
    IF w.pub[i].promise = "pending"
    THEN publishEventToRelay_return(
             close([w EXCEPT !.pub[i].promise = "resolved"], i), i)
    ELSE w

\* Mutant: the reject of the timer settles the promise again.
publishEventToRelay_reject_again(w, i, reason) ==
    IF w.pub[i].promise \in {"pending", "resolved"}
    THEN publishEventToRelay_catch([w EXCEPT !.pub[i].promise = "rejected"], i, reason)
    ELSE w

\* reject(new Error('Publish timeout')) of the inner promise, then the catch.
publishEventToRelay_reject(w, i, reason) ==
    IF w.pub[i].promise = "pending"
    THEN publishEventToRelay_catch([w EXCEPT !.pub[i].promise = "rejected"], i, reason)
    ELSE w

\* The assignments of messageHandler for an acknowledgement of the event.
acknowledge(w, i, msgEvent) ==
    [w EXCEPT !.pub[i].result.success = msgEvent.flag,
              !.pub[i].result.message =
                  IF Truthy(msgEvent.text) THEN msgEvent.text
                  ELSE "Event published",
              !.pub[i].result.latency = w.now - w.pub[i].startTime]

\* Mutant: a frame that cannot be parsed fails the publish.
messageHandler_parseErrorFails(w, i, msgEvent) ==
    IF msgEvent.kind \in {"garbage", "null"}
    THEN publishEventToRelay_reject(w, i, "Unexpected token")
    ELSE IF msgEvent.kind = "OK" /\ msgEvent.id = w.pub[i].result.eventId
         THEN publishEventToRelay_resolve(
                  [acknowledge(w, i, msgEvent) EXCEPT !.ws[i].listener = FALSE], i)
         ELSE w

\* messageHandler: JSON.parse throws on text that is not JSON and
\* response[0] throws on null; both are caught and ignored.
messageHandler(w, i, msgEvent) ==
    IF msgEvent.kind \in {"garbage", "null"}
    THEN w
    ELSE IF msgEvent.kind = "OK" /\ msgEvent.id = w.pub[i].result.eventId
         THEN publishEventToRelay_resolve(
                  [acknowledge(w, i, msgEvent) EXCEPT !.ws[i].listener = FALSE], i)
         ELSE w

\* Mutant: the EVENT frame is sent before the handler is registered.
publishEventToRelay_connected_sendFirst(w, i) ==
    IF w.conn[i].status = "connected" /\ w.ws[i].readyState # "none"
    THEN LET w1 == send([w EXCEPT !.pub[i].promise = "pending"], i, "EVENT")
             w2 == [w1 EXCEPT !.ws[i].listener = TRUE]
         IN [w2 EXCEPT !.pub[i].timer = TRUE, !.pub[i].pc = "waiting"]
    ELSE publishEventToRelay_catch(w, i, "Failed to connect to relay")

\* After `await connectToRelay(url)`: register the handler, send the EVENT
\* frame, arm the 10-second timer.
publishEventToRelay_connected(w, i) ==
    IF w.conn[i].status = "connected" /\ w.ws[i].readyState # "none"
    THEN LET w1 == [w EXCEPT !.ws[i].listener = TRUE, !.pub[i].promise = "pending"]
             w2 == send(w1, i, "EVENT")
         IN [w2 EXCEPT !.pub[i].timer = TRUE, !.pub[i].pc = "waiting"]
    ELSE publishEventToRelay_catch(w, i, "Failed to connect to relay")

\* The 10-second timer.
publishEventToRelay_timer(w, i) ==
    publishEventToRelay_reject(
        [w EXCEPT !.pub[i].timer = FALSE, !.ws[i].listener = FALSE], i,
        "Publish timeout")

-----------------------------------------------------------------------------
(* monitorRelay *)

NoMonitor ==
    [connection |-> FALSE, checkLogs |-> FALSE, cancels |-> 0,
     onLog |-> <<>>, onStatusChange |-> <<>>, logAfterCancel |-> FALSE]

\* A call of the caller's onLog; logAfterCancel notes a call made after the
\* cancel function had been invoked.
onLog(w, entry) ==
    [w EXCEPT !.mon.onLog = Append(@, entry),
              !.mon.logAfterCancel = @ \/ w.mon.cancels > 0]

RECURSIVE forEachOnLog(_, _)
forEachOnLog(w, entries) ==
    IF entries = <<>> THEN w
    ELSE forEachOnLog(onLog(w, Head(entries)), Tail(entries))

\* A call of the caller's onStatusChange.
onStatusChange(w, status) ==
    [w EXCEPT !.mon.onStatusChange = Append(@, status)]

\* .then(conn => ...): keep the connection, report its status, start the
\* 100 ms poll, replace the socket's onclose and onerror.
monitorRelay_then(w) ==
    LET w1 == onStatusChange([w EXCEPT !.mon.connection = TRUE], w.conn[1].status)
        w2 == [w1 EXCEPT !.mon.checkLogs = TRUE]
    IN IF w2.ws[1].readyState # "none"
       THEN [w2 EXCEPT !.ws[1].onclose = "monitorRelay",
                       !.ws[1].onerror = "monitorRelay"]
       ELSE w2

\* .catch(error => ...)
monitorRelay_catch(w, reason) ==
    onLog(onStatusChange(w, "error"),
          [timestamp |-> w.now, type |-> "error", message |-> reason,
           data |-> NoData])

\* Mutant: the poll forwards the buffer without emptying it.
checkLogs_keepsBuffer(w) ==
    IF w.mon.connection /\ Len(w.conn[1].logs) > 0
    THEN forEachOnLog(w, w.conn[1].logs)
    ELSE w

\* The setInterval callback.
checkLogs(w) ==
    IF w.mon.connection /\ Len(w.conn[1].logs) > 0
    THEN forEachOnLog([w EXCEPT !.conn[1].logs = <<>>], w.conn[1].logs)
    ELSE w

\* Mutant: the close handler reports the status and lets the poll run on.
monitorRelay_onclose_keepsPolling(w) == onStatusChange(w, "disconnected")

\* connection.websocket.onclose as set by monitorRelay
monitorRelay_onclose(w) ==
    [onStatusChange(w, "disconnected") EXCEPT !.mon.checkLogs = FALSE]

\* connection.websocket.onerror as set by monitorRelay
monitorRelay_onerror(w) == onStatusChange(w, "error")

\* The function monitorRelay returns: connection?.websocket?.close()
cancel(w) ==
    LET w1 == [w EXCEPT !.mon.cancels = @ + 1]
    IN IF w1.mon.connection /\ w1.ws[1].readyState # "none"
       THEN close(w1, 1)
       ELSE w1

-----------------------------------------------------------------------------
(* stressTestRelay *)

NoStress ==
    [n |-> 0, startTime |-> 0, pc |-> [i \in Conns |-> "idle"],
     hold |-> [i \in Conns |-> FALSE], successCount |-> 0, failCount |-> 0,
     latencies |-> <<>>, returned |-> FALSE,
     result |-> [totalConnections |-> 0, successfulConnections |-> 0,
                 failedConnections |-> 0, latencySum |-> 0, latencyCount |-> 0,
                 duration |-> 0]]

RECURSIVE SeqSum(_)
SeqSum(s) == IF s = <<>> THEN 0 ELSE Head(s) + SeqSum(Tail(s))

\* Mutant: returns as soon as one attempt has finished.
stressTestRelay_join_any(w) ==
    IF ~w.st.returned /\ \E i \in 1..w.st.n : w.st.pc[i] = "done"
    THEN [w EXCEPT !.st.returned = TRUE,
                   !.st.result =
                       [totalConnections |-> w.st.n,
                        successfulConnections |-> w.st.successCount,
                        failedConnections |-> w.st.failCount,
                        latencySum |-> SeqSum(w.st.latencies),
                        latencyCount |-> Len(w.st.latencies),
                        duration |-> w.now - w.st.startTime]]
    ELSE w

\* `await Promise.all(connectionPromises)` and the return: once every
\* attempt has finished, the counters are copied into the result.
\* averageLatency is kept as the pair latencySum / latencyCount.
stressTestRelay_join(w) ==
    IF ~w.st.returned /\ \A i \in 1..w.st.n : w.st.pc[i] = "done"
    THEN [w EXCEPT !.st.returned = TRUE,
                   !.st.result =
                       [totalConnections |-> w.st.n,
                        successfulConnections |-> w.st.successCount,
                        failedConnections |-> w.st.failCount,
                        latencySum |-> SeqSum(w.st.latencies),
                        latencyCount |-> Len(w.st.latencies),
                        duration |-> w.now - w.st.startTime]]
    ELSE w

\* Mutant: a failed attempt is not counted.
stressTestRelay_catch_uncounted(w, i) ==
    stressTestRelay_join([w EXCEPT !.st.pc[i] = "done"])

\* catch (error) { failCount++; } of one attempt
stressTestRelay_catch(w, i) ==
    stressTestRelay_join([w EXCEPT !.st.failCount = @ + 1, !.st.pc[i] = "done"])

\* One attempt after `await connectToRelay(url, 5000)`.
stressTestRelay_connected(w, i) ==
    IF w.conn[i].status = "connected"
    THEN [w EXCEPT !.st.latencies = Append(@, w.now - w.st.startTime),
                   !.st.successCount = @ + 1,
                   !.st.hold[i] = TRUE,
                   !.st.pc[i] = "holding"]
    ELSE stressTestRelay_join([w EXCEPT !.st.failCount = @ + 1,
                                        !.st.pc[i] = "done"])

\* The hold timer of one attempt: connection.websocket?.close()
stressTestRelay_hold(w, i) ==
    LET w1 == close([w EXCEPT !.st.hold[i] = FALSE], i)
    IN stressTestRelay_join([w1 EXCEPT !.st.pc[i] = "done"])

-----------------------------------------------------------------------------
(* getRelayInfo, pingRelay, testRelayCompliance, compareRelays *)

\* connectToRelay is defined below; a ping that fails at once (the WebSocket
\* constructor throws) runs on into the next ping within the same task.
RECURSIVE connectToRelay(_, _, _)

TestCount == 3

\* What the fetch of the relay information document ends in: "throw" (fetch
\* rejects or response.json() throws), "http" (response.ok is false, with
\* response.status as its decimal text), or "json" with data.supported_nips
\* missing (nipsKind "undefined"), an array of numbers, or the number 1 in
\* place of an array.
NoNips == {}
Response(kind, status, nipsKind, nips) ==
    [kind |-> kind, status |-> status, nipsKind |-> nipsKind, nips |-> nips]
Responses ==
    {Response("throw", "0", "undefined", NoNips),
     Response("http", "404", "undefined", NoNips),
     Response("http", "500", "undefined", NoNips),
     Response("json", "200", "undefined", NoNips),
     Response("json", "200", "number", NoNips),
     Response("json", "200", "array", NoNips),
     Response("json", "200", "array", {1, 42}),
     Response("json", "200", "array", {1, 42, 45})}

\* getRelayInfo(url) for a given outcome of the fetch.
getRelayInfo(response) ==
    IF response.kind = "json"
    THEN [status |-> "connected", nipsKind |-> response.nipsKind,
          supported_nips |-> response.nips, errorMessage |-> "undefined"]
    ELSE IF response.kind = "http"
         THEN [status |-> "error", nipsKind |-> "undefined",
               supported_nips |-> NoNips,
               errorMessage |-> "HTTP " \o response.status]
         ELSE [status |-> "error", nipsKind |-> "undefined",
               supported_nips |-> NoNips, errorMessage |-> "Failed to fetch"]

\* i is the loop variable, started counts the pingRelay calls, pingError is
\* the message of the error the last failed ping threw.  successRate and
\* averageLatency are kept as the fractions the code divides.
NoCompliance ==
    [pc |-> "idle", i |-> 0, successCount |-> 0, latencies |-> <<>>,
     pingStart |-> 0, started |-> 0, pingError |-> "undefined",
     result |-> [url |-> "", nip01Compliant |-> FALSE, supportsAuth |-> FALSE,
                 supportsCount |-> FALSE,
                 averageLatency |-> [num |-> 0, den |-> 1],
                 successRate |-> [num |-> 0, den |-> 1],
                 tested |-> 0]]

\* `return Promise.all(promises)` of compareRelays.
compareRelays_join(w) ==
    IF ~w.fan.returned /\ \A u \in 1..w.fan.n : w.tc[u].pc = "returned"
    THEN [w EXCEPT !.fan.returned = TRUE,
                   !.fan.results = [k \in 1..w.fan.n |-> w.tc[k].result]]
    ELSE w

\* `return result`, and the caller's Promise.all when the call is one of a
\* comparison.
testRelayCompliance_return(w, u) ==
    LET w1 == [w EXCEPT !.tc[u].pc = "returned"]
    IN IF w.op = "compare"
       THEN compareRelays_join([w1 EXCEPT !.fan.order = Append(@, u)])
       ELSE w1

\* Lines 328-332: the result after the loop.
testRelayCompliance_done(w, u) ==
    testRelayCompliance_return(
        [w EXCEPT
           !.tc[u].result.tested = TestCount,
           !.tc[u].result.successRate =
               [num |-> w.tc[u].successCount, den |-> TestCount],
           !.tc[u].result.averageLatency =
               IF Len(w.tc[u].latencies) > 0
               THEN [num |-> SeqSum(w.tc[u].latencies),
                     den |-> Len(w.tc[u].latencies)]
               ELSE [num |-> 0, den |-> 1]], u)

\* The outer catch (lines 334-336): nothing; return result.
testRelayCompliance_catch(w, u) == testRelayCompliance_return(w, u)

\* pingRelay(url) up to its await.  The socket of the previous ping is left
\* behind closing; its events change only that ping's connection object,
\* which nothing reads any more, so the new ping takes over the attempt's slot.
pingRelay(w, u, url) ==
    connectToRelay([w EXCEPT !.tc[u].pc = "pinging",
                             !.tc[u].pingStart = w.now,
                             !.tc[u].started = @ + 1],
                   u, UrlOk(url))

\* The loop head: `i < testCount` and the next ping, or the end of the loop.
testRelayCompliance_loop(w, u) ==
    IF w.tc[u].i < TestCount THEN pingRelay(w, u, w.tc[u].result.url)
    ELSE testRelayCompliance_done(w, u)

\* The loop's catch (lines 323-325) swallows the error of the ping; i++.
testRelayCompliance_pingFailed(w, u) ==
    testRelayCompliance_loop([w EXCEPT !.tc[u].i = @ + 1], u)

\* The loop body after a ping returned its latency (lines 320-322); i++.
testRelayCompliance_pingOk(w, u, latency) ==
    testRelayCompliance_loop(
        [w EXCEPT !.tc[u].latencies = Append(@, latency),
                  !.tc[u].successCount = @ + 1,
                  !.tc[u].i = @ + 1], u)

\* pingRelay's catch rethrows `Ping failed: ...`: to the caller of a ping
\* made on its own, to the loop of testRelayCompliance otherwise.
pingRelay_catch(w, u, reason) ==
    LET w1 == [w EXCEPT !.tc[u].pingError = "Ping failed: " \o ErrorMessage(reason)]
    IN IF w.op = "ping" THEN [w1 EXCEPT !.tc[u].pc = "thrown"]
       ELSE testRelayCompliance_pingFailed(w1, u)

\* `return latency` of pingRelay.
pingRelay_return(w, u, latency) ==
    IF w.op = "ping"
    THEN [w EXCEPT !.tc[u].pc = "returned", !.tc[u].latencies = <<latency>>]
    ELSE testRelayCompliance_pingOk(w, u, latency)

\* pingRelay after `await connectToRelay(url, 5000)`.
pingRelay_connected(w, u) ==
    IF w.conn[u].status = "connected"
    THEN pingRelay_return(close(w, u), u, w.now - w.tc[u].pingStart)
    ELSE pingRelay_catch(w, u, "Failed to connect")

\* After `await getRelayInfo(url)`: the capability flags, then the first
\* ping.  `info.supported_nips.includes` is not a function when
\* supported_nips is a number: the TypeError lands in the outer catch.
testRelayCompliance_info(w, u, info) ==
    IF info.nipsKind = "number" THEN testRelayCompliance_catch(w, u)
    ELSE LET w1 == IF info.nipsKind = "array"
                   THEN [w EXCEPT
                           !.tc[u].result.nip01Compliant = 1 \in info.supported_nips,
                           !.tc[u].result.supportsAuth = 42 \in info.supported_nips,
                           !.tc[u].result.supportsCount = 45 \in info.supported_nips]
                   ELSE w
         IN testRelayCompliance_loop([w1 EXCEPT !.tc[u].i = 0], u)

\* testRelayCompliance(url) up to `await getRelayInfo(url)`.
testRelayCompliance(w, u, url) ==
    [w EXCEPT !.tc[u].pc = "fetching", !.tc[u].result.url = url]

-----------------------------------------------------------------------------
(* connectToRelay *)

\* The code that awaits connectToRelay's promise, resumed on fulfilment.
awaitResolved(w, i) ==
    CASE w.op = "health" -> healthCheckRelay_connected(w)
      [] w.op \in {"publish", "batch"} -> publishEventToRelay_connected(w, i)
      [] w.op = "monitor" -> monitorRelay_then(w)
      [] w.op = "stress" -> stressTestRelay_connected(w, i)
      [] w.op \in {"ping", "compliance", "compare"} -> pingRelay_connected(w, i)
      [] OTHER -> w

\* The code that awaits connectToRelay's promise, resumed on rejection.
awaitRejected(w, i, reason) ==
    CASE w.op = "health" -> healthCheckRelay_catch(w, reason)
      [] w.op \in {"publish", "batch"} -> publishEventToRelay_catch(w, i, reason)
      [] w.op = "monitor" -> monitorRelay_catch(w, reason)
      [] w.op = "stress" -> stressTestRelay_catch(w, i)
      [] w.op \in {"ping", "compliance", "compare"} -> pingRelay_catch(w, i, reason)
      [] OTHER -> w

\* resolve(connection): settles a pending promise, no effect otherwise.
resolve(w, i) ==
    IF w.promise[i].state = "pending"
    THEN awaitResolved([w EXCEPT !.promise[i].state = "resolved"], i)
    ELSE w

\* reject(error)
reject(w, i, reason) ==
    IF w.promise[i].state = "pending"
    THEN awaitRejected([w EXCEPT !.promise[i].state = "rejected",
                                 !.promise[i].reason = reason], i, reason)
    ELSE w

\* Mutant: the timer rejects without closing the socket.
timeoutCallback_noClose(w, i) ==
    LET w0 == [w EXCEPT !.timeoutId[i] = FALSE]
    IN IF w0.ws[i].readyState # "OPEN"
       THEN LET w2 == [w0 EXCEPT !.conn[i].status = "error"]
                w3 == pushLog(w2, i, "error", "Connection timeout", NoData)
            IN reject(w3, i, "Connection timeout")
       ELSE w0

\* The connect timer's callback (lines 36-47).
timeoutCallback(w, i) ==
    LET w0 == [w EXCEPT !.timeoutId[i] = FALSE]
    IN IF w0.ws[i].readyState # "OPEN"
       THEN LET w1 == close(w0, i)
                w2 == [w1 EXCEPT !.conn[i].status = "error"]
                w3 == pushLog(w2, i, "error", "Connection timeout", NoData)
            IN reject(w3, i, "Connection timeout")
       ELSE w0

\* ws.onopen (lines 49-59)
onopen(w, i) ==
    LET w1 == [w EXCEPT !.timeoutId[i] = FALSE,
                        !.conn[i].status = "connected",
                        !.conn[i].lastActivity = w.now]
        w2 == pushLog(w1, i, "info", "Connected to relay", NoData)
    IN resolve(w2, i)

\* ws.onerror (lines 61-71)
onerror(w, i) ==
    LET w1 == [w EXCEPT !.timeoutId[i] = FALSE,
                        !.conn[i].status = "error",
                        !.conn[i].errorCount = @ + 1]
    IN pushLog(w1, i, "error", "WebSocket error", ErrorEvent)

\* ws.onmessage (lines 73-82)
onmessage(w, i, data) ==
    LET w1 == [w EXCEPT !.conn[i].messageCount = @ + 1,
                        !.conn[i].lastActivity = w.now]
    IN pushLog(w1, i, "received", "Message received", data)

\* ws.onclose (lines 84-91)
onclose(w, i) ==
    pushLog([w EXCEPT !.conn[i].status = "disconnected"], i,
            "info", "Connection closed", NoData)

\* connectToRelay(url, timeout) up to the return of the promise.  urlOk is
\* whether `new WebSocket(url)` accepts the url; when it throws, the catch
\* rejects the promise at once.
connectToRelay(w, i, urlOk) ==
    LET w1 == [w EXCEPT !.conn[i] = [NoConnection EXCEPT
                                        !.status = "disconnected",
                                        !.lastActivity = w.now],
                        !.promise[i] = [state |-> "pending", reason |-> "undefined",
                                        calls |-> w.promise[i].calls + 1],
                        !.ws[i] = NoSocket,
                        !.timeoutId[i] = FALSE]
    IN IF urlOk
       THEN [w1 EXCEPT !.ws[i] = [NoSocket EXCEPT !.readyState = "CONNECTING",
                                                  !.onclose = "connectToRelay",
                                                  !.onerror = "connectToRelay"],
                       !.conn[i].status = "connecting",
                       !.timeoutId[i] = TRUE]
       ELSE LET w2 == [w1 EXCEPT !.conn[i].status = "error"]
                w3 == pushLog(w2, i, "error", "Connection failed: Invalid URL", NoData)
            IN reject(w3, i, "Invalid URL")

-----------------------------------------------------------------------------
(* Dispatch of WebSocket events to the handlers currently installed *)

fireError(w, i) ==
    IF w.ws[i].onerror = "monitorRelay" THEN monitorRelay_onerror(w)
    ELSE onerror(w, i)

fireClose(w, i) ==
    IF w.ws[i].onclose = "monitorRelay" THEN monitorRelay_onclose(w)
    ELSE onclose(w, i)

\* Bookkeeping for the properties: the frames that arrive while
\* publishEventToRelay is waiting for the acknowledgement (after the EVENT
\* frame was sent, before the call returned), with their arrival time.
observe(w, i, data) ==
    IF w.pub[i].pc = "waiting"
    THEN [w EXCEPT !.pub[i].observed = Append(@, [data |-> data, at |-> w.now])]
    ELSE w

\* onmessage runs first, then the listener added by publishEventToRelay.
fireMessage(w, i, data) ==
    LET w1 == onmessage(w, i, data)
    IN IF w1.ws[i].listener THEN messageHandler(w1, i, data) ELSE w1

-----------------------------------------------------------------------------
(* The public functions, up to their first suspension *)

healthCheckRelay(w, urlOk) ==
    LET w1 == [w EXCEPT !.op = "health",
                        !.hc.pc = "connecting",
                        !.hc.startTime = w.now,
                        !.hc.result.timestamp = w.now]
    IN connectToRelay(w1, 1, urlOk)

publishEventToRelay(w, i, url, eventId) ==
    LET w1 == [w EXCEPT !.pub[i].pc = "connecting",
                        !.pub[i].startTime = w.now,
                        !.pub[i].result.relay = url,
                        !.pub[i].result.eventId = eventId,
                        !.pub[i].result.timestamp = w.now]
    IN connectToRelay(w1, i, UrlOk(url))

\* The caller's code that follows the call in the same task: it holds the
\* returned function and invokes it n times.
RECURSIVE cancelTimes(_, _)
cancelTimes(w, n) == IF n = 0 THEN w ELSE cancelTimes(cancel(w), n - 1)

\* monitorRelay's body is synchronous: connectToRelay(url) runs up to the
\* promise it returns (op "monitorRelay": the callbacks are only being
\* registered), the cancel function is returned, and the caller's code runs
\* on, invoking it `cancels` times.  The .catch callback of a promise the
\* constructor failure has already rejected runs after that, as a microtask
\* of the same task.
monitorRelay(w, urlOk, cancels) ==
    LET w1 == connectToRelay([w EXCEPT !.op = "monitorRelay"], 1, urlOk)
        w2 == cancelTimes([w1 EXCEPT !.op = "monitor"], cancels)
    IN IF w2.promise[1].state = "rejected"
       THEN monitorRelay_catch(w2, w2.promise[1].reason)
       ELSE w2

\* Array.from({length: connectionCount}, async () => ...): the attempts start
\* one after the other, each running up to its await.
RECURSIVE stressTestRelay_launch(_, _, _)
stressTestRelay_launch(w, i, urlOk) ==
    IF i > w.st.n THEN w
    ELSE stressTestRelay_launch(
             connectToRelay([w EXCEPT !.st.pc[i] = "connecting"], i, urlOk),
             i + 1, urlOk)

\* urls.map(url => publishEventToRelay(url, event)), then Promise.all.
RECURSIVE batchPublishToRelays_launch(_, _, _)
batchPublishToRelays_launch(w, i, eventId) ==
    IF i > w.fan.n THEN w
    ELSE batchPublishToRelays_launch(
             publishEventToRelay(w, i, w.fan.urls[i], eventId), i + 1, eventId)

batchPublishToRelays(w, urls, eventId) ==
    batchPublishToRelays_join(
        batchPublishToRelays_launch(
            [w EXCEPT !.op = "batch", !.fan.n = Len(urls), !.fan.urls = urls],
            1, eventId))

\* urls.map(url => testRelayCompliance(url)), then Promise.all.
RECURSIVE compareRelays_launch(_, _)
compareRelays_launch(w, u) ==
    IF u > w.fan.n THEN w
    ELSE compareRelays_launch(testRelayCompliance(w, u, w.fan.urls[u]), u + 1)

compareRelays(w, urls) ==
    compareRelays_join(
        compareRelays_launch(
            [w EXCEPT !.op = "compare", !.fan.n = Len(urls), !.fan.urls = urls], 1))

\* Array.from({length: connectionCount}, ...) runs every attempt up to its
\* await; Promise.all of no attempts resolves at once.
stressTestRelay(w, urlOk, connectionCount) ==
    stressTestRelay_join(
        stressTestRelay_launch(
            [w EXCEPT !.op = "stress", !.st.n = connectionCount,
                      !.st.startTime = w.now],
            1, urlOk))

-----------------------------------------------------------------------------
(* The state machine *)

Init ==
    /\ now = 0
    /\ op = "idle"
    /\ conn = [i \in Conns |-> NoConnection]
    /\ ws = [i \in Conns |-> NoSocket]
    /\ timeoutId = [i \in Conns |-> FALSE]
    /\ promise = [i \in Conns |-> NoPromise]
    /\ hc = NoHealth
    /\ pub = [i \in Conns |-> NoPublish]
    /\ mon = NoMonitor
    /\ st = NoStress
    /\ tc = [i \in Conns |-> NoCompliance]
    /\ fan = NoFanOut

\* Frames delivered so far, over all connections.
RECURSIVE SumCounts(_)
SumCounts(S) ==
    IF S = {} THEN 0
    ELSE LET i == CHOOSE j \in S : TRUE
         IN conn[i].messageCount + SumCounts(S \ {i})

Received == SumCounts(Conns)

\* Time passes.
Tick ==
    /\ now < MaxNow
    /\ now' = now + 1
    /\ UNCHANGED <<op, conn, ws, timeoutId, promise, hc, pub, mon, st, tc, fan>>

CallHealthCheck ==
    /\ op = "idle"
    /\ \E urlOk \in BOOLEAN : Apply(healthCheckRelay(W, urlOk))

CallPublish ==
    /\ op = "idle"
    /\ \E url \in {GoodUrl, BadUrl}, eventId \in Ids :
           Apply(publishEventToRelay([W EXCEPT !.op = "publish"], 1, url, eventId))

CallMonitor ==
    /\ op = "idle"
    /\ \E urlOk \in BOOLEAN, cancels \in 0..MaxCancels :
           Apply(monitorRelay(W, urlOk, cancels))

CallStressTest ==
    /\ op = "idle"
    /\ \E urlOk \in BOOLEAN, n \in 0..MaxConn : Apply(stressTestRelay(W, urlOk, n))

CallConnect ==
    /\ op = "idle"
    /\ \E urlOk \in BOOLEAN : Apply(connectToRelay([W EXCEPT !.op = "connect"], 1, urlOk))

\* pingRelay is called, and called again once the previous ping has settled
\* and its socket is closed, up to MaxPings calls.
CallPing ==
    /\ \/ op = "idle"
       \/ /\ op = "ping"
          /\ tc[1].pc \in {"returned", "thrown"}
          /\ ws[1].readyState \in {"none", "CLOSED"}
          /\ ~timeoutId[1]
    /\ tc[1].started < MaxPings
    /\ \E url \in {GoodUrl, BadUrl} :
           Apply(pingRelay([W EXCEPT !.op = "ping",
                                     !.tc[1] = [NoCompliance EXCEPT
                                                   !.started = W.tc[1].started]],
                           1, url))

CallCompliance ==
    /\ op = "idle"
    /\ \E url \in {GoodUrl, BadUrl} :
           Apply(testRelayCompliance([W EXCEPT !.op = "compliance"], 1, url))

\* The argument arrays of the fan-outs: up to MaxConn endpoints.
UrlLists == UNION {[1..n -> Urls] : n \in 0..MaxConn}

CallBatchPublish ==
    /\ op = "idle"
    /\ \E urls \in UrlLists : Apply(batchPublishToRelays(W, urls, "abc"))

CallCompare ==
    /\ op = "idle"
    /\ \E urls \in UrlLists : Apply(compareRelays(W, urls))

\* The fetch of getRelayInfo ends.
FetchDone(u) ==
    /\ tc[u].pc = "fetching"
    /\ \E response \in Responses :
           Apply(testRelayCompliance_info(W, u, getRelayInfo(response)))

\* The open event.
WsOpen(i) ==
    /\ ws[i].readyState = "CONNECTING"
    /\ Apply(onopen([W EXCEPT !.ws[i].readyState = "OPEN",
                              !.ws[i].established = TRUE], i))

\* The connection fails (refused, dropped, or closed before it was
\* established): error event, then close event.
WsFail(i) ==
    /\ ws[i].readyState \in {"CONNECTING", "OPEN", "CLOSING"}
    /\ Apply(fireClose(fireError([W EXCEPT !.ws[i].readyState = "CLOSED"], i), i))

\* The connection closes cleanly: close event.
WsClose(i) ==
    /\ ws[i].readyState \in {"OPEN", "CLOSING"}
    /\ ws[i].established
    /\ Apply(fireClose([W EXCEPT !.ws[i].readyState = "CLOSED"], i))

\* A frame arrives: message event.
WsMessage(i) ==
    /\ ws[i].readyState = "OPEN"
    /\ Received < MaxMsgs
    /\ \E data \in FramesFor(op) : Apply(fireMessage(observe(W, i, data), i, data))

ConnectTimeout(i) ==
    /\ timeoutId[i]
    /\ Apply(timeoutCallback(W, i))

HealthTimer ==
    /\ hc.timer
    /\ Apply(healthCheckRelay_timer(W))

PublishTimer(i) ==
    /\ pub[i].timer
    /\ Apply(publishEventToRelay_timer(W, i))

PollTimer ==
    /\ mon.checkLogs
    /\ Apply(checkLogs(W))

Cancel ==
    /\ op = "monitor"
    /\ mon.cancels < MaxCancels
    /\ Apply(cancel(W))

HoldTimer(i) ==
    /\ st.hold[i]
    /\ Apply(stressTestRelay_hold(W, i))

\* The transport events and the clock, common to all calls.
Transport ==
    \/ Tick
    \/ \E i \in Conns : WsOpen(i)
    \/ \E i \in Conns : WsFail(i)
    \/ \E i \in Conns : WsClose(i)
    \/ \E i \in Conns : ConnectTimeout(i)

\* Frames from the relay.
Incoming == \E i \in Conns : WsMessage(i)

\* One call of each public function, with everything that can happen to it.
NextHealth == CallHealthCheck \/ Transport \/ Incoming \/ HealthTimer
SpecHealth == Init /\ [][NextHealth]_vars

NextPublish ==
    CallPublish \/ Transport \/ Incoming \/ (\E i \in Conns : PublishTimer(i))
SpecPublish == Init /\ [][NextPublish]_vars

NextMonitor == CallMonitor \/ Transport \/ Incoming \/ PollTimer \/ Cancel
SpecMonitor == Init /\ [][NextMonitor]_vars

NextConnect == CallConnect \/ Transport \/ Incoming
SpecConnect == Init /\ [][NextConnect]_vars

\* A ping closes its socket in the task in which the socket opens: no frame
\* is ever delivered to it.
NextPing == CallPing \/ Transport
SpecPing == Init /\ [][NextPing]_vars

NextCompliance == CallCompliance \/ Transport \/ (\E u \in Conns : FetchDone(u))
SpecCompliance == Init /\ [][NextCompliance]_vars

\* Time passes in a run of a fan-out.
FanTick == now < MaxFanNow /\ Tick

\* The transport events and the clock of a fan-out.
FanTransport ==
    \/ FanTick
    \/ \E i \in Conns : WsOpen(i)
    \/ \E i \in Conns : WsFail(i)
    \/ \E i \in Conns : WsClose(i)
    \/ \E i \in Conns : ConnectTimeout(i)

\* batchPublishToRelays: one publishEventToRelay per endpoint.
NextBatch ==
    CallBatchPublish \/ FanTransport \/ Incoming \/ (\E i \in Conns : PublishTimer(i))
SpecBatch == Init /\ [][NextBatch]_vars

\* compareRelays: one testRelayCompliance per endpoint.
NextCompare == CallCompare \/ FanTransport \/ (\E u \in Conns : FetchDone(u))
SpecCompare == Init /\ [][NextCompare]_vars

\* Either fan-out.
NextFanOut == NextBatch \/ NextCompare
SpecFanOut == Init /\ [][NextFanOut]_vars

NextStress ==
    CallStressTest \/ Transport \/ Incoming \/ (\E i \in Conns : HoldTimer(i))
SpecStress == Init /\ [][NextStress]_vars

-----------------------------------------------------------------------------
(* Properties *)

Open(i) == ws[i].readyState \in {"CONNECTING", "OPEN"}

\* An acknowledgement of the published event.
MatchingAck(f) == f.kind = "OK" /\ f.id = pub[1].result.eventId

\* Positions of the acknowledgements among the observed frames.
Acks == {k \in 1..Len(pub[1].observed) : MatchingAck(pub[1].observed[k].data)}

FirstAck == pub[1].observed[CHOOSE k \in Acks : \A j \in Acks : k <= j]

\* C1: when publishEventToRelay has returned, the socket it opened is not
\* still open without close() having been called on it.
C1_PublishClosesSession ==
    (op = "publish" /\ pub[1].pc = "returned") => (Open(1) => ws[1].closeCalled)

\* C2: a healthCheckRelay call that has not returned is bounded by an armed
\* timer (the connect timeout or the 1-second wait), and a call that
\* returned after a failed connect reports isHealthy=false with an error text.
C2_HealthCheckBounded ==
    op = "health" =>
        /\ hc.pc # "returned" => (timeoutId[1] \/ hc.timer)
        /\ (hc.pc = "returned" /\ promise[1].state = "rejected") =>
               (~hc.result.isHealthy /\ hc.result.errorMessage \notin {"undefined", ""})

\* C3: onLog is never invoked after the cancel function has been invoked.
C3_NoLogAfterCancel == ~mon.logAfterCancel

\* C4: once the cancel function has been invoked, the monitor's socket is
\* not open or connecting and the poll timer is not armed.
C4_CancelClosesAndHalts ==
    (op = "monitor" /\ mon.cancels > 0) => (~Open(1) /\ ~mon.checkLogs)

\* C5: the returned success is true exactly when an OK frame with the
\* event's id and a truthy flag was observed while the call was waiting, and
\* false in every other run.
C5_SuccessTrueIffTruthyAck ==
    (op = "publish" /\ pub[1].pc = "returned") =>
        pub[1].result.success =
            (IF \E k \in Acks : Truthy(pub[1].observed[k].data.flag)
             THEN "true" ELSE "false")

\* C6: the result is fixed by the first acknowledgement: once the publish
\* has resolved, success, message and latency are those of the first
\* observed OK frame with the event's id, and after the return no frame and
\* no timer changes the result or returns again.
C6_ResultOfFirstAck ==
    /\ [](pub[1].promise = "resolved" =>
            /\ pub[1].pc = "returned"
            /\ Acks # {}
            /\ pub[1].result.success = FirstAck.data.flag
            /\ pub[1].result.message =
                   (IF FirstAck.data.text \in {"undefined", ""}
                    THEN "Event published" ELSE FirstAck.data.text)
            /\ pub[1].result.latency = FirstAck.at - pub[1].startTime)
    /\ [][pub[1].pc = "returned" => (pub[1].pc' = "returned" /\ pub[1].result' = pub[1].result)]_vars

\* The call returned on an acknowledgement that followed another frame, at
\* a later clock reading than its start, and the 10-second timer, still armed
\* at the return, has fired since.
C6_Witness ==
    /\ op = "publish" /\ pub[1].pc = "returned" /\ pub[1].promise = "resolved"
    /\ ~pub[1].timer
    /\ Len(pub[1].observed) = 2
    /\ pub[1].result.latency > 0
    /\ now > pub[1].result.latency

\* C7: while only frames that are not an acknowledgement of the event
\* arrive, the publish stays pending until its timer fires, and then returns
\* success=false with the message 'Publish timeout'.
C7_OtherFramesIgnored ==
    (op = "publish" /\ pub[1].promise # "none" /\ Acks = {}) =>
        \/ /\ pub[1].pc = "waiting"
           /\ pub[1].promise = "pending"
           /\ pub[1].timer
           /\ pub[1].result.success = "false"
        \/ /\ pub[1].pc = "returned"
           /\ pub[1].promise = "rejected"
           /\ ~pub[1].timer
           /\ pub[1].result.success = "false"
           /\ pub[1].result.message = "Publish timeout"

C7_Witness ==
    /\ op = "publish" /\ pub[1].pc = "returned" /\ Acks = {}
    /\ \E k \in 1..Len(pub[1].observed) : pub[1].observed[k].data.kind \in {"garbage", "null"}
    /\ \E k \in 1..Len(pub[1].observed) : pub[1].observed[k].data.kind = "OK"

\* C8: a returned health check has errorMessage set exactly when isHealthy
\* is false.
C8_ErrorMessageIffUnhealthy ==
    (op = "health" /\ hc.pc = "returned") =>
        (hc.result.errorMessage # "undefined" <=> ~hc.result.isHealthy)

C8_Witness ==
    /\ op = "health" /\ hc.pc = "returned"
    /\ ~hc.result.isHealthy
    /\ hc.result.errorMessage = "Connection timeout"

\* C9: when healthCheckRelay has returned, close() has been called on the
\* socket it opened.
C9_HealthCheckClosesSession ==
    (op = "health" /\ hc.pc = "returned") =>
        (ws[1].readyState # "none" => ws[1].closeCalled)

\* The peer closed during the 1-second wait: the CLOSE frame was sent on a
\* closed socket, then the call closed the socket and returned.
C9_Witness ==
    /\ op = "health" /\ hc.pc = "returned" /\ hc.result.isHealthy
    /\ \E k \in 1..Len(ws[1].sent) :
           ws[1].sent[k].frame = "CLOSE" /\ ws[1].sent[k].readyState = "CLOSED"

\* C10: the result of stressTestRelay counts every attempt once: the
\* attempts whose connect resolved as successful, those whose connect
\* rejected as failed, together connectionCount = totalConnections.
C10_CountsAddUp ==
    (op = "stress" /\ st.returned) =>
        /\ st.result.totalConnections = st.n
        /\ st.result.successfulConnections + st.result.failedConnections = st.n
        /\ st.result.successfulConnections =
               Cardinality({i \in 1..st.n : promise[i].state = "resolved"})
        /\ st.result.failedConnections =
               Cardinality({i \in 1..st.n : promise[i].state = "rejected"})

C10_Witness ==
    /\ op = "stress" /\ st.returned
    /\ st.result.successfulConnections >= 1
    /\ st.result.failedConnections >= 1

\* C11: when stressTestRelay returns, each of its connectionCount attempts
\* has made its one connectToRelay call and has finished, no timer of the run
\* is armed and no socket of the run is open or connecting; and a step in
\* which one attempt fails changes nothing of the other attempts.
C11_ReturnsAfterAllAttempts ==
    /\ []((op = "stress" /\ st.returned) =>
            \A i \in 1..st.n :
                /\ st.pc[i] = "done"
                /\ promise[i].calls = 1
                /\ promise[i].state \in {"resolved", "rejected"}
                /\ ~st.hold[i] /\ ~timeoutId[i]
                /\ ~Open(i))
    /\ [][op = "stress" =>
            \A i \in 1..st.n :
                (st.pc[i] # "done" /\ st.pc'[i] = "done" /\ promise'[i].state = "rejected") =>
                    \A j \in 1..st.n \ {i} :
                        /\ st.pc'[j] = st.pc[j] /\ st.hold'[j] = st.hold[j]
                        /\ timeoutId'[j] = timeoutId[j] /\ promise'[j] = promise[j]
                        /\ ws'[j] = ws[j] /\ conn'[j] = conn[j]]_vars

\* The first attempt timed out while the second was connected, held and
\* closed its connection, and the run has returned.
C11_Witness ==
    /\ op = "stress" /\ st.returned /\ st.n = 2
    /\ promise[1].state = "rejected" /\ promise[2].state = "resolved"
    /\ ws[2].closeCalled /\ ws[2].readyState = "CLOSED"
    /\ st.result.duration > 0

\* C12: the array a fan-out returns has the length of urls, and its element
\* i is the result of the call made for urls[i], in whatever order the calls
\* returned.
C12_ResultsInInputOrder ==
    (op \in {"batch", "compare"} /\ fan.returned) =>
        /\ Len(fan.results) = Len(fan.urls)
        /\ \A i \in 1..Len(fan.urls) :
              IF op = "batch"
              THEN /\ fan.results[i] = pub[i].result
                   /\ fan.results[i].relay = fan.urls[i]
              ELSE /\ fan.results[i] = tc[i].result
                   /\ fan.results[i].url = fan.urls[i]

C12_Witness ==
    /\ op = "batch" /\ fan.returned
    /\ fan.urls = <<GoodUrl, GoodUrl>>
    /\ fan.order = <<2, 1>>
    /\ fan.results[1].relay = GoodUrl /\ Truthy(fan.results[1].success)
    /\ fan.results[2].relay = GoodUrl /\ ~Truthy(fan.results[2].success)

\* The state of endpoint i's publish: its frame, session, socket and timers.
Endpoint(i) == <<pub[i], conn[i], ws[i], timeoutId[i], promise[i]>>

\* C13: in a batch, a step that changes one endpoint's publish (a connect
\* failure and a publish timeout among them) leaves every other endpoint's
\* publish as it is; a result, once returned, stays; and the batch returns
\* only when every endpoint has returned, with a result for each, failed or
\* not.
C13_BatchIsolation ==
    /\ []((op = "batch" /\ fan.returned) =>
            /\ \A i \in 1..fan.n : pub[i].pc = "returned"
            /\ Len(fan.results) = fan.n)
    /\ [][op = "batch" =>
            \A i \in 1..fan.n :
                /\ (pub[i].pc = "returned" => pub'[i].result = pub[i].result)
                /\ (Endpoint(i)' # Endpoint(i) =>
                       \A j \in 1..fan.n \ {i} : Endpoint(j)' = Endpoint(j))]_vars

C13_Witness ==
    /\ op = "batch" /\ fan.returned /\ fan.n = 2
    /\ fan.results[1].message = "Connection timeout"
    /\ ~Truthy(fan.results[1].success)
    /\ Truthy(fan.results[2].success)
    /\ fan.order = <<1, 2>>

\* C14: a result returned by testRelayCompliance has tested = 3 and
\* successRate = (successful pings)/3, between 0 and 1.
C14_TestedThree ==
    (op = "compliance" /\ tc[1].pc = "returned") =>
        /\ tc[1].result.tested = TestCount
        /\ tc[1].result.successRate = [num |-> Len(tc[1].latencies), den |-> TestCount]
        /\ 0 <= tc[1].result.successRate.num
        /\ tc[1].result.successRate.num <= tc[1].result.successRate.den

\* C15: a testRelayCompliance call that has not returned is waiting for the
\* fetch to end or for a ping whose connect timer is armed: whatever the
\* fetch and the pings do, it goes on to return.
C15_ComplianceReturns ==
    (op = "compliance" /\ tc[1].pc = "pinging") => timeoutId[1]

\* C16: a connectToRelay call that has not settled has its timer armed, so
\* that it rejects when the timeout elapses at the latest, whatever the order
\* of open, error and close relative to the timer.
C16_ConnectSettles ==
    (op = "connect" /\ promise[1].state = "pending") => timeoutId[1]

Settled(i) == promise[i].state \in {"resolved", "rejected"}

\* C17: the call settles at most once.  It resolves with status 'connected'
\* and with the timer disarmed from then on; it rejects on the timeout with
\* status 'error' and a socket that can no longer open, so the status is
\* never 'connected' afterwards.
C17_FirstWins ==
    /\ [](op = "connect" =>
            /\ (promise[1].state = "resolved" => ~timeoutId[1])
            /\ (promise[1].state = "rejected" =>
                   /\ conn[1].status \in {"error", "disconnected"}
                   /\ ws[1].readyState \notin {"CONNECTING", "OPEN"}))
    /\ [][op = "connect" =>
            /\ (Settled(1) => promise'[1] = promise[1])
            /\ (~Settled(1) /\ promise'[1].state = "resolved" =>
                   conn'[1].status = "connected")
            /\ (~Settled(1) /\ promise'[1].state = "rejected" =>
                   /\ conn'[1].status = "error"
                   /\ promise'[1].reason = "Connection timeout")]_vars

C17_Witness ==
    /\ op = "connect"
    /\ promise[1].state = "rejected" /\ promise[1].reason = "Connection timeout"
    /\ ws[1].closeCalled /\ ws[1].readyState = "CLOSED"
    /\ conn[1].status = "disconnected"

\* C18: while a monitored session is not cancelled, entries waiting in its
\* buffer have the poll running, so that they go on to be forwarded, those
\* appended just before the transport closed included.
C18_NoLogLost ==
    (op = "monitor" /\ mon.connection /\ mon.cancels = 0 /\ Len(conn[1].logs) > 0)
        => mon.checkLogs

\* s is an initial part of t.
IsPrefix(s, t) == Len(s) <= Len(t) /\ SubSeq(t, 1, Len(s)) = s

\* The entries forwarded so far followed by those still in the buffer.
Forwarded == mon.onLog \o conn[1].logs

\* C19: the entries forwarded to onLog followed by the buffer are the
\* entries appended so far, in their order: a step only appends to that
\* sequence, so no entry is forwarded twice or out of order; and a drain
\* forwards the whole buffer and leaves it empty.
C19_ForwardedOnceInOrder ==
    [][(op = "monitor" /\ mon.connection) =>
          /\ IsPrefix(Forwarded, Forwarded')
          /\ (mon.onLog' # mon.onLog =>
                 /\ mon.onLog' = mon.onLog \o conn[1].logs
                 /\ conn'[1].logs = <<>>)]_vars

C19_Witness ==
    /\ op = "monitor" /\ mon.connection
    /\ Len(mon.onLog) = 2 /\ Len(conn[1].logs) = 1
    /\ mon.onLog[1].message = "Connected to relay"
    /\ mon.onLog[2].type = "received"
    /\ mon.onLog[1].timestamp < mon.onLog[2].timestamp
    /\ conn[1].logs[1].type = "received"

\* C20: every change of the session's status, the entry into 'connecting'
\* included, comes with one call of onStatusChange with the new status.
C20_EveryTransitionReported ==
    [][(op' = "monitor" /\ conn'[1].status # conn[1].status) =>
          mon.onStatusChange' = Append(mon.onStatusChange, conn'[1].status)]_vars

\* C21: an invocation of the cancel function after the first one changes
\* nothing: no state transition, no socket operation, no call of
\* onStatusChange or onLog.
C21_CancelIdempotent ==
    [][(op = "monitor" /\ mon.cancels >= 1 /\ mon.cancels' = mon.cancels + 1) =>
          /\ conn' = conn /\ ws' = ws /\ promise' = promise /\ timeoutId' = timeoutId
          /\ mon'.onStatusChange = mon.onStatusChange
          /\ mon'.onLog = mon.onLog
          /\ mon'.checkLogs = mon.checkLogs]_vars

\* The entries of type t in a log.
EntriesOfType(logs, t) == {k \in 1..Len(logs) : logs[k].type = t}

\* C22: every frame sent on the session has its 'sent' entry in the log:
\* as many 'sent' entries as send calls.
C22_EverySendLogged ==
    op = "health" =>
        Cardinality(EntriesOfType(conn[1].logs, "sent")) = Len(ws[1].sent)

\* C23: every frame was sent at a moment when the session's status was
\* 'connected', the CLOSE frame of healthCheckRelay included.
C23_SentWhileConnected ==
    op = "health" =>
        \A k \in 1..Len(ws[1].sent) : ws[1].sent[k].status = "connected"

\* C24: once close() has been called on a session and its transport has
\* closed, the session is 'disconnected' and its log has exactly one
\* 'Connection closed' entry, however often close() was called.
C24_CloseEndsDisconnected ==
    (op = "monitor" /\ ws[1].closeCalled /\ ws[1].readyState = "CLOSED") =>
        /\ conn[1].status = "disconnected"
        /\ Cardinality({k \in 1..Len(mon.onLog \o conn[1].logs) :
               (mon.onLog \o conn[1].logs)[k].message = "Connection closed"}) = 1

\* C29: lastActivity never decreases and is refreshed by every change of
\* the session's status and by every frame sent.
C29_LastActivityRefreshed ==
    [][op' = "health" =>
          /\ conn'[1].lastActivity >= conn[1].lastActivity
          /\ (conn'[1].status # conn[1].status => conn'[1].lastActivity = now')
          /\ (Len(ws'[1].sent) > Len(ws[1].sent) => conn'[1].lastActivity = now')]_vars

\* C30: while monitorRelay is attached to a session, the status last
\* reported through onStatusChange is the session's status.
C30_StatusMatchesReported ==
    (op = "monitor" /\ mon.connection) =>
        conn[1].status = mon.onStatusChange[Len(mon.onStatusChange)]

\* C28: when the transport of a session that monitorRelay is attached to
\* closes, 'disconnected' is the status reported, the poll is stopped, and
\* from then on onLog is not called.
C28_CloseStopsPolling ==
    [][(op = "monitor" /\ mon.connection) =>
          /\ (ws[1].readyState # "CLOSED" /\ ws'[1].readyState = "CLOSED" =>
                 /\ Len(mon'.onStatusChange) > Len(mon.onStatusChange)
                 /\ mon'.onStatusChange[Len(mon'.onStatusChange)] = "disconnected"
                 /\ mon'.onLog = mon.onLog
                 /\ ~mon'.checkLogs)
          /\ (ws[1].readyState = "CLOSED" =>
                 mon'.onLog = mon.onLog /\ ~mon'.checkLogs)]_vars

C28_Witness ==
    /\ op = "monitor" /\ mon.connection /\ mon.cancels = 0
    /\ ws[1].readyState = "CLOSED"
    /\ mon.onStatusChange = <<"connected", "disconnected">>
    /\ Len(mon.onLog) = 1 /\ Len(conn[1].logs) = 1
    /\ ~mon.checkLogs

\* C27: the EVENT frame is sent with the acknowledgement handler already
\* registered; while the publish waits the handler stays registered and the
\* 10-second timer armed; an acknowledgement that arrives while it waits
\* resolves it at once, so a waiting publish has seen none and a publish
\* that has seen one was resolved by it.
C27_AckObserved ==
    op = "publish" =>
        /\ \A k \in 1..Len(ws[1].sent) :
               ws[1].sent[k].frame = "EVENT" => ws[1].sent[k].listener
        /\ (pub[1].pc = "waiting" =>
               /\ ws[1].listener /\ pub[1].timer /\ pub[1].promise = "pending"
               /\ Len(ws[1].sent) = 1
               /\ Acks = {})
        /\ (pub[1].pc = "returned" /\ Acks # {} => pub[1].promise = "resolved")

C27_Witness ==
    /\ op = "publish" /\ pub[1].pc = "returned"
    /\ pub[1].promise = "resolved"
    /\ Len(pub[1].observed) = 2
    /\ ~MatchingAck(pub[1].observed[1].data)
    /\ MatchingAck(pub[1].observed[2].data)
    /\ pub[1].observed[2].at > pub[1].startTime
    /\ ws[1].sent[1].frame = "EVENT" /\ ws[1].sent[1].listener

\* C25: a pingRelay call that has not settled is waiting for a connect
\* whose timer is armed, so that it fails with 'Ping failed' when the
\* connection is not established within the timeout; it returns a latency
\* only after the session was 'connected'; and when it has settled, the
\* socket it opened is no longer open.
C25_PingSettlesClosed ==
    op = "ping" =>
        /\ (tc[1].pc = "pinging" => timeoutId[1])
        /\ (tc[1].pc = "returned" => promise[1].state = "resolved" /\ ws[1].closeCalled)
        /\ (tc[1].pc \in {"returned", "thrown"} => ~Open(1))

\* C26: a testRelayCompliance call that has returned has started exactly 3
\* pings, and has as many latency samples as pings that succeeded.
C26_ThreePings ==
    (op = "compliance" /\ tc[1].pc = "returned") =>
        /\ tc[1].started = TestCount
        /\ Len(tc[1].latencies) = tc[1].successCount

====
